---- MODULE Spec2Model ----
(***************************************************************************)
(* Model of the DVF backend: the memoized snapshot loader of               *)
(* backend/services/dvf_loader.py (_load_rows under lru_cache(maxsize=1),  *)
(* refresh_cache) and the queries computed over the cached rows            *)
(* (get_available_years, _filter_rows, get_arrondissement_summary,         *)
(* get_arrondissement_timeseries).                                         *)
(*                                                                         *)
(* Text is a sequence of one-character strings, so that strip, lower,      *)
(* slicing, zfill, int() and float() are computed character by character.  *)
(* An Optional value is a sequence of length 0 (None) or 1.                *)
(* A float is held as an integer number of hundredths.                     *)
(***************************************************************************)
EXTENDS Integers, Sequences, FiniteSets, TLC

VARIABLES
    file,       \* GOLD_LAYER_FILE on disk: [exists, rows], rows = the csv's data lines
    cache,      \* the lru_cache(maxsize=1) of _load_rows: <<>> or <<tuple of rows>>
    response,   \* what the last completed call returned (one caller at a time)
    pc,         \* per thread: position inside _load_rows / refresh_cache
    rows,       \* per thread: the local list `rows` being built by _load_rows
    observed,   \* per thread: what its last call of _load_rows handed back
    genOpens    \* opens of GOLD_LAYER_FILE since the cache was last cleared

vars == <<file, cache, response, pc, rows, observed, genOpens>>

\* ---------------------------------------------------------------- bounds
\* lines in the snapshot file
MaxRows == 2

\* lines in the snapshot file while threads interleave
MaxConcRows == 2

\* opens of the file between two cache_clear() while threads interleave
MaxGenOpens == 3

NumThreads == 2

Threads == 1..NumThreads

\* ---------------------------------------------------------------- text
Digits == <<"0", "1", "2", "3", "4", "5", "6", "7", "8", "9">>

UpperChars == <<"A", "B", "C", "D", "E", "F", "G", "H", "I", "J", "K", "L", "M",
                "N", "O", "P", "Q", "R", "S", "T", "U", "V", "W", "X", "Y", "Z">>

LowerChars == <<"a", "b", "c", "d", "e", "f", "g", "h", "i", "j", "k", "l", "m",
                "n", "o", "p", "q", "r", "s", "t", "u", "v", "w", "x", "y", "z">>

IsDigit(c) == \E i \in 1..10 : Digits[i] = c

DigitVal(c) == (CHOOSE i \in 1..10 : Digits[i] = c) - 1

LowerChar(c) ==
    IF \E i \in 1..26 : UpperChars[i] = c
    THEN LowerChars[CHOOSE i \in 1..26 : UpperChars[i] = c]
    ELSE c

\* str.lower()
lower(s) == [i \in 1..Len(s) |-> LowerChar(s[i])]

RECURSIVE lstrip(_)
lstrip(s) == IF Len(s) > 0 /\ s[1] = " " THEN lstrip(Tail(s)) ELSE s

RECURSIVE rstrip(_)
rstrip(s) ==
    IF Len(s) > 0 /\ s[Len(s)] = " " THEN rstrip(SubSeq(s, 1, Len(s) - 1)) ELSE s

\* str.strip()
strip(s) == rstrip(lstrip(s))

\* s[-2:]
LastTwo(s) == IF Len(s) <= 2 THEN s ELSE SubSeq(s, Len(s) - 1, Len(s))

Zeros(n) == [i \in 1..n |-> "0"]

\* str.zfill(width): pads on the left, after a leading sign; never truncates
zfill(s, width) ==
    IF Len(s) >= width THEN s
    ELSE IF Len(s) > 0 /\ s[1] \in {"+", "-"}
         THEN <<s[1]>> \o Zeros(width - Len(s)) \o Tail(s)
         ELSE Zeros(width - Len(s)) \o s

IsDigits(s) == Len(s) > 0 /\ \A i \in 1..Len(s) : IsDigit(s[i])

RECURSIVE ToNat(_)
ToNat(s) ==
    IF Len(s) = 0 THEN 0
    ELSE 10 * ToNat(SubSeq(s, 1, Len(s) - 1)) + DigitVal(s[Len(s)])

Unsigned(s) == IF Len(s) > 0 /\ s[1] \in {"+", "-"} THEN Tail(s) ELSE s

SignOf(s) == IF Len(s) > 0 /\ s[1] = "-" THEN -1 ELSE 1

Raised == [ok |-> FALSE, val |-> 0]

ParseInt(sign, d) == IF IsDigits(d) THEN [ok |-> TRUE, val |-> sign * ToNat(d)] ELSE Raised

\* int(str): surrounding blanks and one sign allowed, then decimal digits;
\* anything else raises ValueError (ok = FALSE)
int(s) == ParseInt(SignOf(strip(s)), Unsigned(strip(s)))

DotAt(s) ==
    IF \E i \in 1..Len(s) : s[i] = "." THEN CHOOSE i \in 1..Len(s) : s[i] = "." ELSE 0

\* the first two fractional digits as hundredths
Hundredths(f) ==
    IF Len(f) = 0 THEN 0
    ELSE IF Len(f) = 1 THEN 10 * DigitVal(f[1])
    ELSE 10 * DigitVal(f[1]) + DigitVal(f[2])

ParseParts(sign, ip, fp, dotted) ==
    IF \/ IsDigits(ip) /\ (Len(fp) = 0 \/ IsDigits(fp))
       \/ dotted /\ Len(ip) = 0 /\ IsDigits(fp)
    THEN [ok |-> TRUE, val |-> sign * (100 * ToNat(ip) + Hundredths(fp))]
    ELSE Raised

ParseDecimal(sign, d, k) ==
    IF k = 0 THEN ParseParts(sign, d, <<>>, FALSE)
    ELSE ParseParts(sign, SubSeq(d, 1, k - 1), SubSeq(d, k + 1, Len(d)), TRUE)

ParseFloat(t) == ParseDecimal(SignOf(t), Unsigned(t), DotAt(Unsigned(t)))

\* float(str) for plain decimal notation [sign]digits[.digits]; the value is
\* returned in hundredths.  Anything else raises ValueError (ok = FALSE).
float(s) == ParseFloat(strip(s))

\* int(float): truncation toward zero of a value held in hundredths
Trunc(h) == IF h >= 0 THEN h \div 100 ELSE -((-h) \div 100)

TruncResult(f) == IF f.ok THEN [ok |-> TRUE, val |-> Trunc(f.val)] ELSE Raised

\* int(float(str))
int_float(s) == TruncResult(float(s))

RECURSIVE NatStr(_)
NatStr(n) ==
    IF n < 10 THEN <<Digits[n + 1]>> ELSE NatStr(n \div 10) \o <<Digits[(n % 10) + 1]>>

\* f"{n:02d}"
Format02d(n) ==
    IF n >= 0 THEN zfill(NatStr(n), 2) ELSE zfill(<<"-">> \o NatStr(-n), 2)

\* ---------------------------------------------------------------- Optional
None == <<>>

Some(v) == <<v>>

IsNone(o) == Len(o) = 0

\* ---------------------------------------------------------------- snapshot lines
\* Lines of agg_dvf_data.csv as csv.DictReader yields them (text per column).
\* Prices are even numbers of hundredths, so a two-value mean is exact.
RawG1 ==
    [code_commune |-> <<"0", "1", "0", "0", "1">>, annee |-> <<"2", "0", "2", "1">>,
     type_local |-> <<"M", "a", "i", "s", "o", "n">>,
     prix_m2_med |-> <<"3", "0", ".", "0">>, nb_ventes |-> <<"5">>]

RawG2 ==
    [code_commune |-> <<"0", "1", "0", "0", "1">>, annee |-> <<"2", "0", "2", "1">>,
     type_local |-> <<"A", "p", "p", "t">>,
     prix_m2_med |-> <<"5", "0", ".", "0">>, nb_ventes |-> <<"3">>]

RawG3 ==
    [code_commune |-> <<" ", "7", "5", "1", "0", "2">>, annee |-> <<"2", "0", "2", "0", ".", "0">>,
     type_local |-> <<"M", "A", "I", "S", "O", "N", " ">>,
     prix_m2_med |-> <<"1", "2", "0", "0", "0">>, nb_ventes |-> <<"2", ".", "0">>]

RawG4 ==
    [code_commune |-> <<"7", "5", "1", "0", "2">>, annee |-> <<"2", "0", "2", "1">>,
     type_local |-> <<"m", "a", "i", "s", "o", "n">>,
     prix_m2_med |-> <<"4", "1", ".", "5">>, nb_ventes |-> <<"4">>]

\* a commune code written without its leading zero, and an empty type_local
RawG5 ==
    [code_commune |-> <<"1", "0", "0", "1">>, annee |-> <<"2", "0", "2", "1">>,
     type_local |-> <<>>,
     prix_m2_med |-> <<"2", "0">>, nb_ventes |-> <<"1">>]

\* annee is not a number
RawB1 ==
    [code_commune |-> <<"7", "5", "1", "0", "3">>, annee |-> <<"2", "0", "x", "1">>,
     type_local |-> <<"M", "a", "i", "s", "o", "n">>,
     prix_m2_med |-> <<"1", "0", ".", "0">>, nb_ventes |-> <<"1">>]

\* the last two characters of code_commune are not a number
RawB2 ==
    [code_commune |-> <<"7", "5", "1", "0", "A">>, annee |-> <<"2", "0", "2", "1">>,
     type_local |-> <<"M", "a", "i", "s", "o", "n">>,
     prix_m2_med |-> <<"1", "0", ".", "0">>, nb_ventes |-> <<"1">>]

RawLines == {RawG1, RawG2, RawG3, RawG4, RawG5, RawB1, RawB2}

SeqsUpTo(S, n) == UNION {[1..k -> S] : k \in 0..n}

\* the states GOLD_LAYER_FILE can be in: absent, or present with some lines
Files ==
    {[exists |-> FALSE, rows |-> <<>>]}
        \cup {[exists |-> TRUE, rows |-> ls] : ls \in SeqsUpTo(RawLines, MaxRows)}

\* ---------------------------------------------------------------- _load_rows
MakeRow(code, arrondissement, num, annee, type_local, prix, nb) ==
    IF num.ok /\ annee.ok /\ prix.ok /\ nb.ok
    THEN [ok |-> TRUE,
          row |-> [code_commune |-> code,
                   arrondissement |-> arrondissement,
                   arrondissement_num |-> num.val,
                   annee |-> annee.val,
                   type_local |-> type_local,
                   prix_m2_med |-> prix.val,
                   nb_ventes |-> nb.val]]
    ELSE [ok |-> FALSE, row |-> <<>>]

RowOfCode(code, raw) ==
    MakeRow(code, LastTwo(code), int(LastTwo(code)), int_float(raw.annee),
            strip(raw.type_local), float(raw.prix_m2_med), int_float(raw.nb_ventes))

\* the body of the `for raw in reader` loop: one normalized Row, or ValueError
ParseRow(raw) == RowOfCode(strip(raw.code_commune), raw)

RECURSIVE ParseLines(_, _)
\* a loader that skips a line it cannot coerce instead of raising
ParseNext_skip(r, rest, acc) ==
    IF r.ok THEN ParseLines(rest, Append(acc, r.row)) ELSE ParseLines(rest, acc)

ParseNext(r, rest, acc) ==
    IF r.ok THEN ParseLines(rest, Append(acc, r.row)) ELSE [ok |-> FALSE, rows |-> <<>>]

\* the loop, which an exception leaves at the first line that does not parse
ParseLines(ls, acc) ==
    IF Len(ls) = 0 THEN [ok |-> TRUE, rows |-> acc]
    ELSE ParseNext(ParseRow(Head(ls)), Tail(ls), acc)

\* _load_rows.__wrapped__: open the file (FileNotFoundError when absent), parse
\* every line, return tuple(rows); ok = FALSE stands for the raised exception
_load_rows(f) ==
    IF ~f.exists THEN [ok |-> FALSE, rows |-> <<>>]
    ELSE ParseLines(f.rows, <<>>)

\* a miss of the cache: the result is stored, unless the function raised
CacheMiss(r) ==
    IF r.ok
    THEN [ok |-> TRUE, rows |-> r.rows, cache |-> <<r.rows>>, opens |-> 1]
    ELSE [ok |-> FALSE, rows |-> <<>>, cache |-> <<>>, opens |-> 1]

\* _load_rows without its lru_cache decorator: every call reads the file
lru_cache_call_uncached(c, f) == CacheMiss(_load_rows(f))

\* lru_cache(maxsize=1) around _load_rows, called by one caller at a time:
\* a hit returns the stored tuple, a miss calls the function
lru_cache_call(c, f) ==
    IF Len(c) > 0
    THEN [ok |-> TRUE, rows |-> c[1], cache |-> c, opens |-> 0]
    ELSE CacheMiss(_load_rows(f))

\* ---------------------------------------------------------------- queries
SetMin(S) == CHOOSE x \in S : \A y \in S : x <= y

\* sorted(set of integers)
RECURSIVE sorted(_)
sorted(S) == IF S = {} THEN <<>> ELSE <<SetMin(S)>> \o sorted(S \ {SetMin(S)})

\* get_available_years over the loaded tuple
get_available_years(rs) == sorted({rs[i].annee : i \in 1..Len(rs)})

\* target_type = type_local.lower() if type_local else None
TargetType(type_local) ==
    IF ~IsNone(type_local) /\ Len(type_local[1]) > 0
    THEN Some(lower(type_local[1]))
    ELSE None

\* the type test without .lower() on the row's side
KeepRow_case_sensitive(row, year, target_type) ==
    /\ ~(~IsNone(year) /\ row.annee # year[1])
    /\ ~(/\ ~IsNone(target_type)
         /\ Len(target_type[1]) > 0
         /\ row.type_local # target_type[1])

\* the two `continue` tests of _filter_rows
KeepRow(row, year, target_type) ==
    /\ ~(~IsNone(year) /\ row.annee # year[1])
    /\ ~(/\ ~IsNone(target_type)
         /\ Len(target_type[1]) > 0
         /\ lower(row.type_local) # target_type[1])

FilterBy(rs, year, target_type) ==
    LET keep(row) == KeepRow(row, year, target_type) IN SelectSeq(rs, keep)

\* _filter_rows over the loaded tuple; year and type_local are Optional
_filter_rows(rs, year, type_local) == FilterBy(rs, year, TargetType(type_local))

AddKey(front, k) ==
    IF \E i \in 1..Len(front) : front[i] = k THEN front ELSE Append(front, k)

\* the keys of a dict filled in this order: each key once, at its first insertion
RECURSIVE DictKeys(_)
DictKeys(ks) ==
    IF Len(ks) = 0 THEN <<>>
    ELSE AddKey(DictKeys(SubSeq(ks, 1, Len(ks) - 1)), ks[Len(ks)])

\* `=` in place of `+=`: the group keeps the count of its last row
SumNbVentes_last(members) ==
    IF Len(members) = 0 THEN 0 ELSE members[Len(members)].nb_ventes

\* aggregated[key]["nb_ventes"] += int(row["nb_ventes"]) over a group's rows
RECURSIVE SumNbVentes(_)
SumNbVentes(members) ==
    IF Len(members) = 0 THEN 0
    ELSE SumNbVentes(SubSeq(members, 1, Len(members) - 1)) + members[Len(members)].nb_ventes

LexLess(a, b) == \E i \in 1..Len(a) : a[i] < b[i] /\ \A j \in 1..(i - 1) : a[j] = b[j]

InsertAt(front, p, n) == SubSeq(front, 1, p) \o <<n>> \o SubSeq(front, p + 1, Len(front))

InsertIndex(front, keys, n) ==
    InsertAt(front, Cardinality({i \in 1..Len(front) : ~LexLess(keys[n], keys[front[i]])}), n)

\* list.sort(key=...): a stable sort, as the order of the indices of `keys`
RECURSIVE SortedIndices(_, _)
SortedIndices(keys, n) ==
    IF n = 0 THEN <<>> ELSE InsertIndex(SortedIndices(keys, n - 1), keys, n)

Permute(items, idx) == [i \in 1..Len(items) |-> items[idx[i]]]

SortByKeys(items, keys) == Permute(items, SortedIndices(keys, Len(items)))

Middle2(s, n) ==
    IF n % 2 = 1 THEN 2 * s[(n + 1) \div 2] ELSE s[n \div 2] + s[(n \div 2) + 1]

\* statistics.median of a non-empty list, doubled so that it stays an integer
Median2(values) ==
    Middle2(SortByKeys(values, [i \in 1..Len(values) |-> <<values[i]>>]), Len(values))

RoundHalfEven(lo) == IF lo % 2 = 0 THEN lo ELSE lo + 1

\* round(x, 2) of a doubled value: exact when x is a whole number of hundredths,
\* to the even neighbour on a decimal tie
Round2(m2) == IF m2 % 2 = 0 THEN m2 \div 2 ELSE RoundHalfEven((m2 - 1) \div 2)

\* round(median(prix_values), 2) if prix_values else 0
MedianPrice(values) == IF Len(values) > 0 THEN Round2(Median2(values)) ELSE 0

PrixValues(members) == [i \in 1..Len(members) |-> members[i].prix_m2_med]

\* the key of the `aggregated` dict of get_arrondissement_summary
SummaryKey(row) == <<row.code_commune, row.annee, row.arrondissement_num>>

SummaryGroup(frows, k) ==
    LET inGroup(row) == SummaryKey(row) = k IN SelectSeq(frows, inGroup)

SummaryItem(k, members) ==
    [code_commune |-> k[1],
     annee |-> k[2],
     arrondissement |-> members[Len(members)].arrondissement,
     arrondissement_num |-> k[3],
     prix_m2_med |-> MedianPrice(PrixValues(members)),
     nb_ventes |-> SumNbVentes(members),
     label |-> Format02d(k[3]) \o <<"e arrondissement">>]

SummaryPayload(frows, keys) ==
    [i \in 1..Len(keys) |-> SummaryItem(keys[i], SummaryGroup(frows, keys[i]))]

\* the sort key with its two parts exchanged
SummarySortKey_district_first(item) == <<item.arrondissement_num, item.annee>>

\* the sort key of get_arrondissement_summary's payload
SummarySortKey(item) == <<item.annee, item.arrondissement_num>>

SortSummary(payload) ==
    SortByKeys(payload, [i \in 1..Len(payload) |-> SummarySortKey(payload[i])])

Aggregate(frows) ==
    SummaryPayload(frows, DictKeys([i \in 1..Len(frows) |-> SummaryKey(frows[i])]))

\* get_arrondissement_summary over the loaded tuple
get_arrondissement_summary(rs, year, type_local) ==
    SortSummary(Aggregate(_filter_rows(rs, year, type_local)))

\* the argument compared as given, without zfill
NormalizeCode_unpadded(code_commune) == code_commune

\* code = str(code_commune).zfill(5)
NormalizeCode(code_commune) == zfill(code_commune, 5)

RowsOfCode(frows, code) ==
    LET hasCode(row) == row.code_commune = code IN SelectSeq(frows, hasCode)

YearGroup(crows, y) ==
    LET inGroup(row) == row.annee = y IN SelectSeq(crows, inGroup)

SeriesItem(y, members) ==
    [annee |-> y,
     prix_m2_med |-> MedianPrice(PrixValues(members)),
     nb_ventes |-> SumNbVentes(members)]

SeriesPayload(crows, keys) ==
    [i \in 1..Len(keys) |-> SeriesItem(keys[i], YearGroup(crows, keys[i]))]

SortSeries(payload) == SortByKeys(payload, [i \in 1..Len(payload) |-> <<payload[i].annee>>])

AggregateByYear(crows) ==
    SeriesPayload(crows, DictKeys([i \in 1..Len(crows) |-> crows[i].annee]))

\* get_arrondissement_timeseries over the loaded tuple
get_arrondissement_timeseries(rs, code_commune, type_local) ==
    SortSeries(AggregateByYear(
        RowsOfCode(_filter_rows(rs, None, type_local), NormalizeCode(code_commune))))

\* ---------------------------------------------------------------- arguments
YearArgs == {None, Some(2020), Some(2021)}

TypeArgs == {None, Some(<<>>), Some(<<"M", "a", "i", "s", "o", "n">>)}

CodeArgs == {<<"1", "0", "0", "1">>, <<"7", "5", "1", "0", "2">>, <<"-", "1", "2">>}

\* ---------------------------------------------------------------- one caller at a time
\* a refresh that only clears the cache and leaves the load to the next call
refresh_cache_clear_only(c, f) == [ok |-> TRUE, rows |-> <<>>, cache |-> <<>>, opens |-> 0]

Accumulated(c, r) ==
    IF r.ok /\ Len(c) = 1
    THEN [r EXCEPT !.rows = c[1] \o r.rows, !.cache = <<c[1] \o r.rows>>]
    ELSE r

\* a refresh whose load appends to the rows already held instead of replacing them
refresh_cache_accumulate(c, f) == Accumulated(c, lru_cache_call(<<>>, f))

\* refresh_cache: _load_rows.cache_clear() and then _load_rows()
refresh_cache(c, f) == lru_cache_call(<<>>, f)

NoReply ==
    [op |-> "none", year |-> None, type_local |-> None, code_commune |-> None,
     ok |-> TRUE, opens |-> 0, payload |-> <<>>]

\* the call ends: the cache is as the call left it, the caller holds the payload
\* or the exception
Return(r, op, year, type_local, code_commune, payload) ==
    /\ cache' = r.cache
    /\ response' =
           [op |-> op, year |-> year, type_local |-> type_local,
            code_commune |-> code_commune, ok |-> r.ok, opens |-> r.opens,
            payload |-> IF r.ok THEN payload ELSE <<>>]
    /\ UNCHANGED <<file, pc, rows, observed, genOpens>>

YearsOf(r) == Return(r, "years", None, None, None, get_available_years(r.rows))

\* GET /api/dvf/years
list_years == YearsOf(lru_cache_call(cache, file))

FilterOf(r, year, type_local) ==
    Return(r, "filter", year, type_local, None, _filter_rows(r.rows, year, type_local))

\* a direct call of _filter_rows(year, type_local)
filter_rows(year, type_local) == FilterOf(lru_cache_call(cache, file), year, type_local)

SummaryOf(r, year, type_local) ==
    Return(r, "summary", year, type_local, None,
           get_arrondissement_summary(r.rows, year, type_local))

\* GET /api/dvf/arrondissements
arrondissements(year, type_local) == SummaryOf(lru_cache_call(cache, file), year, type_local)

SeriesOf(r, code_commune, type_local) ==
    Return(r, "timeseries", None, type_local, Some(code_commune),
           get_arrondissement_timeseries(r.rows, code_commune, type_local))

\* GET /api/dvf/arrondissements/<code_commune>/timeseries
arrondissement_timeseries(code_commune, type_local) ==
    SeriesOf(lru_cache_call(cache, file), code_commune, type_local)

ReloadOf(r) == Return(r, "reload", None, None, None, <<>>)

\* POST /api/cache/reload
reload_cache == ReloadOf(refresh_cache(cache, file))

\* the ETL publishes a snapshot with one more line (etl/aggregate.py writes the
\* whole file again; the file only grows here, up to MaxRows lines)
save_to_gold ==
    /\ Len(file.rows) < MaxRows
    /\ \E l \in RawLines : file' = [exists |-> TRUE, rows |-> Append(file.rows, l)]
    /\ UNCHANGED <<cache, response, pc, rows, observed, genOpens>>

Init ==
    /\ file \in Files
    /\ cache = <<>>
    /\ response = NoReply
    /\ pc = [t \in Threads |-> "idle"]
    /\ rows = [t \in Threads |-> <<>>]
    /\ observed = [t \in Threads |-> <<>>]
    /\ genOpens = 0

Next ==
    \/ list_years
    \/ \E y \in YearArgs, t \in TypeArgs : filter_rows(y, t)
    \/ \E y \in YearArgs, t \in TypeArgs : arrondissements(y, t)
    \/ \E c \in CodeArgs, t \in TypeArgs : arrondissement_timeseries(c, t)
    \/ reload_cache
    \/ save_to_gold

Spec == Init /\ [][Next]_vars

\* ---------------------------------------------------------------- threads
\* The Flask server runs its handlers on threads.  Every handler reaches the
\* loader through _load_rows(); functools.lru_cache keeps its own bookkeeping
\* consistent, but it does not hold a lock while the wrapped function runs.
ConcLines == {RawG1, RawG3, RawB1}

ConcFiles ==
    {[exists |-> FALSE, rows |-> <<>>]}
        \cup {[exists |-> TRUE, rows |-> ls] : ls \in SeqsUpTo(ConcLines, MaxConcRows)}

\* a handler of a query calls _load_rows()
call_load_rows(t) ==
    /\ pc[t] = "idle"
    /\ pc' = [pc EXCEPT ![t] = "lookup"]
    /\ UNCHANGED <<file, cache, response, rows, observed, genOpens>>

\* the handler of /api/cache/reload calls refresh_cache()
call_refresh_cache(t) ==
    /\ pc[t] = "idle"
    /\ pc' = [pc EXCEPT ![t] = "clear"]
    /\ UNCHANGED <<file, cache, response, rows, observed, genOpens>>

\* _load_rows.cache_clear(), followed in refresh_cache by the call _load_rows()
cache_clear(t) ==
    /\ pc[t] = "clear"
    /\ cache' = <<>>
    /\ genOpens' = 0
    /\ pc' = [pc EXCEPT ![t] = "lookup"]
    /\ UNCHANGED <<file, response, rows, observed>>

\* the wrapper looks the key up: a hit returns the stored tuple
cache_hit(t) ==
    /\ pc[t] = "lookup"
    /\ Len(cache) > 0
    /\ observed' = [observed EXCEPT ![t] = cache]
    /\ pc' = [pc EXCEPT ![t] = "idle"]
    /\ UNCHANGED <<file, cache, response, rows, genOpens>>

\* a miss: the wrapper calls the wrapped function, with no lock held
cache_miss(t) ==
    /\ pc[t] = "lookup"
    /\ Len(cache) = 0
    /\ pc' = [pc EXCEPT ![t] = "open"]
    /\ UNCHANGED <<file, cache, response, rows, observed, genOpens>>

\* rows = []; GOLD_LAYER_FILE.open(...): FileNotFoundError when the file is absent
open_file(t) ==
    /\ pc[t] = "open"
    /\ genOpens < MaxGenOpens
    /\ genOpens' = genOpens + 1
    /\ rows' = [rows EXCEPT ![t] = <<>>]
    /\ pc' = [pc EXCEPT ![t] = IF file.exists THEN "read" ELSE "idle"]
    /\ observed' = [observed EXCEPT ![t] = IF file.exists THEN @ ELSE <<>>]
    /\ UNCHANGED <<file, cache, response>>

ReadNext(t, r) ==
    /\ rows' = [rows EXCEPT ![t] = IF r.ok THEN Append(@, r.row) ELSE <<>>]
    /\ pc' = [pc EXCEPT ![t] = IF r.ok THEN "read" ELSE "idle"]
    /\ observed' = [observed EXCEPT ![t] = IF r.ok THEN @ ELSE <<>>]
    /\ UNCHANGED <<file, cache, response, genOpens>>

\* one turn of `for raw in reader`: append the Row, or leave by ValueError
read_line(t) ==
    /\ pc[t] = "read"
    /\ Len(rows[t]) < Len(file.rows)
    /\ ReadNext(t, ParseRow(file.rows[Len(rows[t]) + 1]))

\* the reader is exhausted: return tuple(rows) to the wrapper
end_of_file(t) ==
    /\ pc[t] = "read"
    /\ Len(rows[t]) = Len(file.rows)
    /\ pc' = [pc EXCEPT ![t] = "store"]
    /\ UNCHANGED <<file, cache, response, rows, observed, genOpens>>

\* the wrapper stores the result unless the key was added meanwhile, and
\* returns the result of its own call
cache_store(t) ==
    /\ pc[t] = "store"
    /\ cache' = IF Len(cache) = 0 THEN <<rows[t]>> ELSE cache
    /\ observed' = [observed EXCEPT ![t] = <<rows[t]>>]
    /\ rows' = [rows EXCEPT ![t] = <<>>]
    /\ pc' = [pc EXCEPT ![t] = "idle"]
    /\ UNCHANGED <<file, response, genOpens>>

InitConc ==
    /\ file \in ConcFiles
    /\ cache = <<>>
    /\ response = NoReply
    /\ pc = [t \in Threads |-> "idle"]
    /\ rows = [t \in Threads |-> <<>>]
    /\ observed = [t \in Threads |-> <<>>]
    /\ genOpens = 0

NextConc ==
    \E t \in Threads :
        \/ call_load_rows(t)
        \/ call_refresh_cache(t)
        \/ cache_clear(t)
        \/ cache_hit(t)
        \/ cache_miss(t)
        \/ open_file(t)
        \/ read_line(t)
        \/ end_of_file(t)
        \/ cache_store(t)

SpecConc == InitConc /\ [][NextConc]_vars

\* ---------------------------------------------------------------- properties
\* every line of f parses, and c holds exactly the Rows of f's lines, in order
FullSnapshot(c, f) ==
    /\ f.exists
    /\ Len(c) = 1
    /\ Len(c[1]) = Len(f.rows)
    /\ \A i \in 1..Len(f.rows) :
           ParseRow(f.rows[i]).ok /\ c[1][i] = ParseRow(f.rows[i]).row

\* the file is there and each of its lines can be coerced
Loadable(f) == f.exists /\ \A i \in 1..Len(f.rows) : ParseRow(f.rows[i]).ok

\* a step that is a completed call of the loader or of a query (the file is
\* untouched and the caller received something new or the cache changed)
CallStep ==
    /\ file' = file
    /\ \/ response'.op # response.op
       \/ response' # response
       \/ cache' # cache

IsQuery(op) == op \in {"years", "filter", "summary", "timeseries"}

\* C1: with one caller at a time, a call that finds a cached snapshot returns
\* it without opening the file and leaves the cache as it is; a call that
\* finds no snapshot opens the file once and, when the load succeeds, caches
\* the result; a reload opens the file once.  Hence one read per generation.
C1_ReadOncePerGeneration ==
    [][CallStep =>
          /\ (IsQuery(response'.op) /\ Len(cache) = 1) =>
                 (response'.opens = 0 /\ response'.ok /\ cache' = cache)
          /\ (IsQuery(response'.op) /\ Len(cache) = 0) => response'.opens = 1
          /\ (IsQuery(response'.op) /\ Len(cache) = 0 /\ response'.ok) =>
                 FullSnapshot(cache', file)
          /\ response'.op = "reload" => response'.opens = 1]_vars

\* C1 witness: a query was answered from the cache, without a read, although
\* the file has changed since the snapshot was taken
C1_Witness ==
    /\ IsQuery(response.op)
    /\ response.ok
    /\ response.opens = 0
    /\ Len(cache) = 1
    /\ Len(file.rows) > Len(cache[1])

\* C3 as stated: when the invalidation returns, the file has not been read and
\* the cache is empty
C3_InvalidateDoesNoIO ==
    response.op = "reload" => (response.opens = 0 /\ Len(cache) = 0)

\* C3 amended: refresh_cache discards the cached sequence and then reads the
\* file itself, once: when it returns normally the cache holds the snapshot of
\* the file as it is now, and when the read fails the cache is left empty
C3_RefreshReloadsEagerly ==
    [][(CallStep /\ response'.op = "reload") =>
          /\ response'.opens = 1
          /\ response'.ok => FullSnapshot(cache', file)
          /\ ~response'.ok => cache' = <<>>]_vars

\* C3 witness: a reload returned normally and left a snapshot with rows cached
C3_Witness ==
    /\ response.op = "reload"
    /\ response.ok
    /\ response.opens = 1
    /\ Len(cache) = 1
    /\ Len(cache[1]) > 0

\* C4: a load fails exactly when the file is absent or a line cannot be
\* coerced; the failed call returns no payload and leaves no snapshot cached;
\* whatever gets cached is the complete snapshot of the file; and a call that
\* finds no snapshot reads the file again
C4_LoadFailsAsAWhole ==
    [][CallStep =>
          /\ (Len(cache) = 0 \/ response'.op = "reload") =>
                 (response'.ok <=> Loadable(file))
          /\ ~response'.ok => (cache' = <<>> /\ response'.payload = <<>>)
          /\ (cache' # cache /\ Len(cache') = 1) => FullSnapshot(cache', file)
          /\ Len(cache) = 0 => response'.opens = 1]_vars

\* C4 witness: a call failed on a file whose first line parses and whose
\* second line does not, and nothing is cached
C4_Witness ==
    /\ ~response.ok
    /\ response.opens = 1
    /\ Len(cache) = 0
    /\ file.exists
    /\ Len(file.rows) = 2
    /\ ParseRow(file.rows[1]).ok
    /\ ~ParseRow(file.rows[2]).ok

\* C5: a reload over a file that still holds what the cached snapshot was
\* taken from succeeds, and every query, for every argument, yields over the
\* new snapshot what it yielded over the old one
C5_ReloadRoundTrip ==
    [][(CallStep /\ response'.op = "reload" /\ FullSnapshot(cache, file)) =>
          /\ response'.ok
          /\ Len(cache') = 1
          /\ get_available_years(cache'[1]) = get_available_years(cache[1])
          /\ \A y \in YearArgs, t \in TypeArgs :
                 /\ _filter_rows(cache'[1], y, t) = _filter_rows(cache[1], y, t)
                 /\ get_arrondissement_summary(cache'[1], y, t)
                        = get_arrondissement_summary(cache[1], y, t)
          /\ \A c \in CodeArgs, t \in TypeArgs :
                 get_arrondissement_timeseries(cache'[1], c, t)
                     = get_arrondissement_timeseries(cache[1], c, t)]_vars

\* C5 witness: a reload returned over an unchanged file of two lines
C5_Witness ==
    /\ response.op = "reload"
    /\ response.ok
    /\ FullSnapshot(cache, file)
    /\ Len(cache[1]) = 2

CaseInsensitiveEq(a, b) ==
    Len(a) = Len(b) /\ \A i \in 1..Len(a) : LowerChar(a[i]) = LowerChar(b[i])

\* the filter as the claim C6 states it
MatchesAsClaimed(row, year, type_local) ==
    /\ IsNone(year) \/ row.annee = year[1]
    /\ IsNone(type_local) \/ CaseInsensitiveEq(type_local[1], row.type_local)

\* the filter as amended: an empty property_type constrains nothing
Matches(row, year, type_local) ==
    /\ IsNone(year) \/ row.annee = year[1]
    /\ \/ IsNone(type_local)
       \/ type_local[1] = <<>>
       \/ CaseInsensitiveEq(type_local[1], row.type_local)

Claimed(year, type_local) ==
    LET m(row) == MatchesAsClaimed(row, year, type_local) IN SelectSeq(cache[1], m)

Matching(year, type_local) ==
    LET m(row) == Matches(row, year, type_local) IN SelectSeq(cache[1], m)

\* C6 as stated: filter returns, in load order, the records whose year equals
\* the year argument (when given) and whose property_type equals the
\* property_type argument case-insensitively (when given, the empty string
\* included)
C6_FilterAsStated ==
    (response.op = "filter" /\ response.ok) =>
        response.payload = Claimed(response.year, response.type_local)

\* C6 amended: the same, except that an empty property_type argument is
\* treated as an absent one
C6_FilterEmptyTypeIsAbsent ==
    (response.op = "filter" /\ response.ok) =>
        response.payload = Matching(response.year, response.type_local)

\* C6 witness: a filter on "Maison" kept a record typed in another case and
\* dropped another record
C6_Witness ==
    /\ response.op = "filter"
    /\ response.ok
    /\ response.type_local = Some(<<"M", "a", "i", "s", "o", "n">>)
    /\ Len(response.payload) = 1
    /\ response.payload[1].type_local # <<"M", "a", "i", "s", "o", "n">>
    /\ Len(cache[1]) = 2

Triple(r) == <<r.code_commune, r.annee, r.arrondissement_num>>

\* C7: the summary is sorted ascending by (year, district_number), no two of
\* its records share (commune_code, year, district_number), and its triples
\* are exactly the triples of the filtered records
C7_SummarySortedOnePerTriple ==
    (response.op = "summary" /\ response.ok) =>
        LET p == response.payload
            f == Matching(response.year, response.type_local)
        IN  /\ \A i, j \in 1..Len(p) :
                   i < j => \/ p[i].annee < p[j].annee
                            \/ /\ p[i].annee = p[j].annee
                               /\ p[i].arrondissement_num <= p[j].arrondissement_num
            /\ \A i, j \in 1..Len(p) : i # j => Triple(p[i]) # Triple(p[j])
            /\ {Triple(p[i]) : i \in 1..Len(p)} = {Triple(f[i]) : i \in 1..Len(f)}

\* C7 witness: a summary of two records where the earlier year comes first
\* although its district number is the larger one
C7_Witness ==
    /\ response.op = "summary"
    /\ response.ok
    /\ Len(response.payload) = 2
    /\ response.payload[1].annee < response.payload[2].annee
    /\ response.payload[1].arrondissement_num > response.payload[2].arrondissement_num

RECURSIVE SumOf(_, _)
SumOf(seq, n) == IF n = 0 THEN 0 ELSE SumOf(seq, n - 1) + seq[n].nb_ventes

\* C8: summarize(year=Y, property_type=None) returns only records of year Y,
\* and their total_sale_count adds up to the sale_count of all loaded records
\* of year Y
C8_SummaryCountsPreserved ==
    (/\ response.op = "summary"
     /\ response.ok
     /\ ~IsNone(response.year)
     /\ IsNone(response.type_local)) =>
        LET p == response.payload
            ofYear(row) == row.annee = response.year[1]
            raws == SelectSeq(cache[1], ofYear)
        IN  /\ \A i \in 1..Len(p) : p[i].annee = response.year[1]
            /\ SumOf(p, Len(p)) = SumOf(raws, Len(raws))

\* C8 witness: a summary for a year in which two loaded records fell into one
\* group
C8_Witness ==
    /\ response.op = "summary"
    /\ response.ok
    /\ response.year = Some(2021)
    /\ IsNone(response.type_local)
    /\ Len(response.payload) = 1
    /\ Len(cache[1]) = 2
    /\ response.payload[1].nb_ventes = 8

\* c left-padded with zeros to width 5
LeftPad5(c) == IF Len(c) >= 5 THEN c ELSE [i \in 1..(5 - Len(c)) |-> "0"] \o c

\* C9: district_timeseries returns one record per distinct year of the loaded
\* records that pass the property_type filter and whose commune_code equals the
\* argument left-padded with zeros to width 5, in strictly ascending year
\* order; with no such record the result is empty and the call succeeds
C9_TimeseriesOnePerYear ==
    (response.op = "timeseries" /\ Len(cache) = 1) =>
        LET p == response.payload
            f == Matching(None, response.type_local)
            code == LeftPad5(response.code_commune[1])
        IN  /\ response.ok
            /\ \A i, j \in 1..Len(p) : i < j => p[i].annee < p[j].annee
            /\ {p[i].annee : i \in 1..Len(p)}
                   = {f[i].annee : i \in {k \in 1..Len(f) : f[k].code_commune = code}}

\* C9 witness: a code given without its leading zero found, through the
\* padding, the two records of its year
C9_Witness ==
    /\ response.op = "timeseries"
    /\ response.ok
    /\ response.code_commune = Some(<<"1", "0", "0", "1">>)
    /\ Len(response.payload) = 1
    /\ response.payload[1].nb_ventes = 8

\* C10: every record of a cached snapshot has a commune_code of exactly 5
\* characters
C10_CommuneCodeHasWidth5 ==
    Len(cache) = 1 => \A i \in 1..Len(cache[1]) : Len(cache[1][i].code_commune) = 5

\* C2: while threads interleave, the file is opened at most once between two
\* clearings of the cache, and neither the cache nor a caller ever holds a
\* sequence with only some of the file's rows
C2_ConcurrentLoadsReadOnce ==
    Loadable(file) =>
        /\ genOpens <= 1
        /\ Len(cache) = 1 => Len(cache[1]) = Len(file.rows)
        /\ \A t \in Threads : Len(observed[t]) = 1 => Len(observed[t][1]) = Len(file.rows)

====
